---- MODULE Spec2Model ----
(***************************************************************************)
(* A model of corroded_dav_cli's WebDAV control layer:                     *)
(*   src/src/filter.rs     FilterCriteria (the listing filter)             *)
(*   src/src/catalogue.rs  CatalogueInfo  (the listing-entry parser)       *)
(*   src/src/davctrl.rs    DavController  (credentials, put/get/ls/delete) *)
(*                                                                         *)
(* netrc is the credential table, fs the local file system, op the call    *)
(* in progress with its inputs and result, events what the call did        *)
(* (credential resolutions, file creations, transport calls), and server   *)
(* the resources of the WebDAV server the lifecycle test talks to, and     *)
(* base_url the URL the interactive session is connected to.               *)
(*                                                                         *)
(* Strings whose content the code inspects (content types, property texts) *)
(* are sequences of one-character strings; Option<T> is a sequence of      *)
(* length 0 (None) or 1 (Some); Result<T, E> is a record with field ok.    *)
(***************************************************************************)
EXTENDS Integers, Sequences, FiniteSets, TLC

VARIABLES netrc, fs, op, events, server, base_url

vars == <<netrc, fs, op, events, server, base_url>>

(***************************************************************************)
(* Bounds of the model.                                                    *)
(***************************************************************************)
\* longest content type / type constraint explored by the filter
MaxStrLen == 2
\* the model's stand-in for u64::max_value(): sizes range over 0..U64Max
U64Max == 1
\* modification times range over 0..MaxTime
MaxTime == 1

(***************************************************************************)
(* Option and Result.                                                      *)
(***************************************************************************)
None == <<>>
Some(v) == <<v>>
IsSome(o) == Len(o) = 1
IsNone(o) == Len(o) = 0
Unwrap(o) == o[1]
UnwrapOr(o, d) == IF IsSome(o) THEN o[1] ELSE d
Option(S) == {None} \cup {Some(v) : v \in S}

Ok(v) == [ok |-> TRUE, val |-> v]
Err(kind, detail) == [ok |-> FALSE, err |-> kind, detail |-> detail]

(***************************************************************************)
(* Strings as sequences of characters.                                     *)
(***************************************************************************)
Alphabet == {"a", "b"}
StrsUpTo(n) == UNION {[1..k -> Alphabet] : k \in 0..n}

\* str::find: the first index (0-based) at which needle occurs in haystack
StrFind(haystack, needle) ==
    LET hits == {i \in 0..(Len(haystack) - Len(needle)) :
                    SubSeq(haystack, i + 1, i + Len(needle)) = needle}
    IN  IF hits = {} THEN None
        ELSE Some(CHOOSE i \in hits : \A j \in hits : i <= j)

(***************************************************************************)
(* filter.rs: FilterCriteria                                               *)
(***************************************************************************)
match_all ==
    [file_type |-> None, min_size |-> None, max_size |-> None,
     earliest_modification |-> None, latest_modification |-> None]

\* lines 75-82 of matches: TRUE when the size test rejects the entry
size_rejects_strict(self, attrs) ==
    /\ IsSome(attrs.size)
    /\ \/ Unwrap(attrs.size) >= UnwrapOr(self.max_size, U64Max)
       \/ Unwrap(attrs.size) < UnwrapOr(self.min_size, 0)

size_rejects(self, attrs) ==
    /\ IsSome(attrs.size)
    /\ \/ Unwrap(attrs.size) > UnwrapOr(self.max_size, U64Max)
       \/ Unwrap(attrs.size) < UnwrapOr(self.min_size, 0)

\* a plausible slip: the bounds of the time test are exclusive
date_rejects_strict(self, attrs) ==
    /\ IsSome(attrs.date)
    /\ LET creation_date == Unwrap(attrs.date)
       IN  \/ /\ IsSome(self.earliest_modification)
              /\ creation_date <= Unwrap(self.earliest_modification)
           \/ /\ IsSome(self.latest_modification)
              /\ creation_date >= Unwrap(self.latest_modification)

\* lines 83-90 of matches: TRUE when the time test rejects the entry
date_rejects(self, attrs) ==
    /\ IsSome(attrs.date)
    /\ LET creation_date == Unwrap(attrs.date)
       IN  \/ creation_date < UnwrapOr(self.earliest_modification, creation_date)
           \/ creation_date > UnwrapOr(self.latest_modification, creation_date)

\* a plausible slip: an entry without a type passes the type test
type_verdict_lenient(self, attrs) ==
    IF IsSome(self.file_type) /\ IsSome(attrs.file_type)
    THEN IsSome(StrFind(Unwrap(self.file_type), Unwrap(attrs.file_type)))
    ELSE TRUE

\* lines 91-99 of matches: the verdict once size and time have passed
type_verdict(self, attrs) ==
    IF IsSome(self.file_type)
    THEN LET regex == Unwrap(self.file_type)
         IN  IF IsSome(attrs.file_type)
             THEN IsSome(StrFind(regex, Unwrap(attrs.file_type)))
             ELSE FALSE
    ELSE TRUE

matches(self, attrs) ==
    IF size_rejects(self, attrs) THEN FALSE
    ELSE IF date_rejects(self, attrs) THEN FALSE
    ELSE type_verdict(self, attrs)

(***************************************************************************)
(* davctrl.rs: credential resolution                                       *)
(*                                                                         *)
(* netrc = [hosts: sequence of [host, machine], default: Option(machine)], *)
(* machine = [login, password: Option(string)] (netrc::Machine; account    *)
(* and port are never read).  A URL is                                     *)
(*   [host: Option([kind, name]), cannot_be_a_base, segs]                  *)
(* where segs are the '/'-separated segments of its path; the path ends    *)
(* with '/' exactly when the last segment is empty.                        *)
(***************************************************************************)
Anonymous == [login |-> "", password |-> ""]

\* a plausible slip: the default entry shadows the per-host entries
find_in_netrc_default_first(nrc, url_host) ==
    IF IsSome(nrc.default) THEN nrc.default
    ELSE LET hits == {i \in 1..Len(nrc.hosts) :
                         url_host.kind = "Domain" /\ url_host.name = nrc.hosts[i].host}
         IN  IF hits # {}
             THEN Some(nrc.hosts[CHOOSE i \in hits : \A j \in hits : i <= j].machine)
             ELSE None

\* the first entry whose host name equals the URL's domain, else the default
_find_in_netrc(nrc, url_host) ==
    LET hits == {i \in 1..Len(nrc.hosts) :
                    url_host.kind = "Domain" /\ url_host.name = nrc.hosts[i].host}
    IN  IF hits # {}
        THEN Some(nrc.hosts[CHOOSE i \in hits : \A j \in hits : i <= j].machine)
        ELSE nrc.default

\* a plausible slip: the warning is printed whenever no per-host entry matched
build_client_warns_on_default(nrc, url) ==
    LET found == IF IsSome(url.host) THEN _find_in_netrc(nrc, Unwrap(url.host)) ELSE None
        hit   == /\ IsSome(url.host)
                 /\ Unwrap(url.host).kind = "Domain"
                 /\ \E i \in 1..Len(nrc.hosts) : nrc.hosts[i].host = Unwrap(url.host).name
    IN  IF IsSome(found) /\ IsSome(Unwrap(found).password)
        THEN [client |-> [login |-> Unwrap(found).login,
                          password |-> Unwrap(Unwrap(found).password)],
              warned |-> ~hit]
        ELSE [client |-> Anonymous, warned |-> TRUE]

\* the client's credentials, and whether the warning was written to stderr
_build_client(nrc, url) ==
    LET found == IF IsSome(url.host) THEN _find_in_netrc(nrc, Unwrap(url.host)) ELSE None
    IN  IF IsSome(found) /\ IsSome(Unwrap(found).password)
        THEN [client |-> [login |-> Unwrap(found).login,
                          password |-> Unwrap(Unwrap(found).password)],
              warned |-> FALSE]
        ELSE [client |-> Anonymous, warned |-> TRUE]

set_default_credentials(nrc, username, password) ==
    [nrc EXCEPT !.default = Some([login |-> username, password |-> Some(password)])]

(***************************************************************************)
(* davctrl.rs: the transport's answers, URLs and local paths               *)
(*                                                                         *)
(* A response is [url, status]; the transport's answer to one call is      *)
(* Option(status): None when the call itself fails (a DavError).  A local  *)
(* path is the sequence of its components; the file system is              *)
(* [dirs: set of paths, files: path -> content].                           *)
(***************************************************************************)
is_success(status) == status \in 200..299

\* Response::error_for_status_ref is an error for 4xx and 5xx only
is_client_or_server_error(status) == status \in 400..599

\* a plausible slip: only the statuses error_for_status_ref rejects are failures
ensure_response_ok_errors_only(response) ==
    IF is_client_or_server_error(response.status)
    THEN Err("Dav", "status")
    ELSE Ok(response)

_ensure_response_ok(response) ==
    IF ~is_success(response.status)
    THEN IF is_client_or_server_error(response.status)
         THEN Err("Dav", "status")
         ELSE Err("Local", "Error status returned without information")
    ELSE Ok(response)

Front(seq) == SubSeq(seq, 1, Len(seq) - 1)
Last(seq) == seq[Len(seq)]

\* Url::path().ends_with('/')
path_ends_with_slash(url) == Len(url.segs) > 0 /\ Last(url.segs) = ""

\* Url::path_segments: None for a cannot-be-a-base URL
path_segments(url) == IF url.cannot_be_a_base THEN None ELSE Some(url.segs)

\* references that are no plain names: one that Url::join rejects whatever the
\* base, and absolute paths with the segments they denote
InvalidRefs == {"http://["}
AbsolutePathRefs == ("/dav/Notes.txt" :> <<"dav", "Notes.txt">>)

\* Url::join: the reference is resolved against the base.  "." names the
\* base's directory, an absolute path replaces the whole path, and any other
\* name replaces the last path segment
join(base, input) ==
    IF input \in InvalidRefs
    THEN Err("ParseUrlError", "InvalidIpv6Address")
    ELSE IF base.cannot_be_a_base
    THEN Err("ParseUrlError", "RelativeUrlWithCannotBeABaseBase")
    ELSE IF input = "."
    THEN Ok([base EXCEPT !.segs = Front(base.segs) \o <<"">>])
    ELSE IF input \in DOMAIN AbsolutePathRefs
    THEN Ok([base EXCEPT !.segs = AbsolutePathRefs[input]])
    ELSE Ok([base EXCEPT !.segs = Front(base.segs) \o <<input>>])

\* Path::file_name: None when the path ends in ".." (or is empty)
file_name(path) ==
    IF Len(path) = 0 \/ Last(path) = ".." THEN None ELSE Some(Last(path))

\* the path with a trailing ".." resolved, as the file system sees it
resolved(path) ==
    IF Len(path) >= 2 /\ Last(path) = ".." THEN Front(Front(path)) ELSE path

is_file(fsys, path) == resolved(path) \in DOMAIN fsys.files
is_dir(fsys, path) == resolved(path) \in fsys.dirs

Content(kind, src) == [kind |-> kind, src |-> src]

TransportEv(method, url, client, item) ==
    [ev |-> "transport", method |-> method, url |-> url, client |-> client, item |-> item]

(***************************************************************************)
(* catalogue.rs: CatalogueInfo                                             *)
(*                                                                         *)
(* An entry element is [name, ns, href, propstat]: href is the text of its *)
(* first DAV: href child, propstat its first DAV: propstat child, which is *)
(* [prop], and prop maps each property name to the text of the first DAV:  *)
(* child of that name; each level is an Option.  Property texts are        *)
(* sequences of characters.                                                *)
(***************************************************************************)
DigitValue ==
    ("0" :> 0) @@ ("1" :> 1) @@ ("2" :> 2) @@ ("3" :> 3) @@ ("4" :> 4) @@
    ("5" :> 5) @@ ("6" :> 6) @@ ("7" :> 7) @@ ("8" :> 8) @@ ("9" :> 9)

\* the value of a run of decimal digits, an error on any other character and
\* on a value above limit
RECURSIVE parse_digits(_, _, _, _)
parse_digits(text, i, acc, limit) ==
    IF i > Len(text) THEN Ok(acc)
    ELSE IF text[i] \notin DOMAIN DigitValue THEN Err("Parse", "InvalidDigit")
    ELSE IF acc * 10 + DigitValue[text[i]] > limit THEN Err("Parse", "PosOverflow")
    ELSE parse_digits(text, i + 1, acc * 10 + DigitValue[text[i]], limit)

\* str::parse::<u64>: an optional '+', then at least one digit
parse_u64(text) ==
    LET digits == IF Len(text) > 0 /\ text[1] = "+" THEN Tail(text) ELSE text
    IN  IF Len(digits) = 0 THEN Err("Parse", "Empty")
        ELSE parse_digits(digits, 1, 0, U64Max)

\* str::parse::<DateTimeUtc>, for the one accepted form the model carries:
\* a timestamp in seconds, within the model's time line
parse_date(text) ==
    IF Len(text) = 0 THEN Err("Parse", "Empty")
    ELSE parse_digits(text, 1, 0, MaxTime)

\* str::parse::<String> cannot fail
parse_string(text) == Ok(text)

\* str::parse as type inference resolves it for the field being assigned
parse_for(target, text) ==
    CASE target = "size" -> parse_u64(text)
      [] target = "date" -> parse_date(text)
      [] target = "file_type" -> parse_string(text)

\* the extract_property! macro: the value assigned to info.<target>
extract_property(target, element_name, prop) ==
    IF IsSome(prop[element_name])
    THEN LET parsed == parse_for(target, Unwrap(prop[element_name]))
         IN  IF parsed.ok THEN Some(parsed.val) ELSE None
    ELSE None

\* a plausible slip: the first unparsable property ends the extraction
CatalogueInfo_new_strict(base, response) ==
    LET name   == IF IsSome(response.href) THEN Unwrap(response.href) ELSE "."
        joined == join(base, name)
        info   == [url |-> IF joined.ok THEN joined.val ELSE base, name |-> name,
                   size |-> None, date |-> None, file_type |-> None]
    IN  IF IsSome(response.propstat) /\ IsSome(Unwrap(response.propstat).prop)
        THEN LET prop == Unwrap(Unwrap(response.propstat).prop)
                 size == extract_property("size", "getcontentlength", prop)
                 date == extract_property("date", "getlastmodified", prop)
             IN  IF IsNone(size) THEN info
                 ELSE IF IsNone(date) THEN [info EXCEPT !.size = size]
                 ELSE [info EXCEPT
                         !.size = size, !.date = date,
                         !.file_type = extract_property("file_type", "getcontenttype", prop)]
        ELSE info

CatalogueInfo_new(base, response) ==
    LET name   == IF IsSome(response.href) THEN Unwrap(response.href) ELSE "."
        joined == join(base, name)
        info   == [url |-> IF joined.ok THEN joined.val ELSE base, name |-> name,
                   size |-> None, date |-> None, file_type |-> None]
    IN  IF IsSome(response.propstat) /\ IsSome(Unwrap(response.propstat).prop)
        THEN LET prop == Unwrap(Unwrap(response.propstat).prop)
             IN  [info EXCEPT
                    !.size = extract_property("size", "getcontentlength", prop),
                    !.date = extract_property("date", "getlastmodified", prop),
                    !.file_type = extract_property("file_type", "getcontenttype", prop)]
        ELSE info

(***************************************************************************)
(* filter.rs: FilterCriteria::new                                          *)
(*                                                                         *)
(* A field description is a sequence of characters; "*" is <<"*">>.  The   *)
(* error is ParseError(message), the message being the parser's own.       *)
(***************************************************************************)
Wildcard == <<"*">>

\* str::parse::<DateTime<Utc>>, for the one accepted form the model carries:
\* a timestamp in seconds followed by the mandatory zone designator "Z"
parse_datetime_utc(text) ==
    LET stamp  == IF Len(text) > 0 /\ Last(text) = "Z" THEN Front(text) ELSE text
        digits == parse_digits(stamp, 1, 0, MaxTime)
    IN  IF Len(stamp) = 0 THEN Err("Parse", "TooShort")
        ELSE IF ~digits.ok
        THEN IF digits.detail = "InvalidDigit"
             THEN Err("Parse", "Invalid")
             ELSE Err("Parse", "OutOfRange")
        ELSE IF stamp = text THEN Err("Parse", "TooShort")
        ELSE digits

\* $desc.parse::<$resulttype>() for the result types the macro is used with
parse_as(resulttype, desc) ==
    CASE resulttype = "u64" -> parse_u64(desc)
      [] resulttype = "DateTime<Utc>" -> parse_datetime_utc(desc)

\* the parse_filter_desc! macro without its '?': the Option the field is set
\* to, or the error the '?' returns from new
parse_filter_desc(desc, resulttype) ==
    IF desc = Wildcard THEN Ok(None)
    ELSE LET parsed == parse_as(resulttype, desc)
         IN  IF parsed.ok THEN Ok(Some(parsed.val))
             ELSE Err("ParseError", parsed.detail)

\* a plausible slip: a field that fails to parse is left unconstrained
FilterCriteria_new_lenient(file_type_desc, min_size_desc, max_size_desc, earliest_modification_desc, latest_modification_desc) ==
    LET get(r) == IF r.ok THEN r.val ELSE None
    IN  Ok([file_type |-> IF file_type_desc = Wildcard THEN None
                          ELSE Some(file_type_desc),
            min_size |-> get(parse_filter_desc(min_size_desc, "u64")),
            max_size |-> get(parse_filter_desc(max_size_desc, "u64")),
            earliest_modification |->
                get(parse_filter_desc(earliest_modification_desc, "DateTime<Utc>")),
            latest_modification |->
                get(parse_filter_desc(latest_modification_desc, "DateTime<Utc>"))])

\* the fields are evaluated in the order they are written; the first '?' that
\* meets an error returns it
FilterCriteria_new(file_type_desc, min_size_desc, max_size_desc, earliest_modification_desc, latest_modification_desc) ==
    LET min_size == parse_filter_desc(min_size_desc, "u64")
        max_size == parse_filter_desc(max_size_desc, "u64")
        earliest_modification ==
            parse_filter_desc(earliest_modification_desc, "DateTime<Utc>")
        latest_modification ==
            parse_filter_desc(latest_modification_desc, "DateTime<Utc>")
    IN  IF ~min_size.ok THEN min_size
        ELSE IF ~max_size.ok THEN max_size
        ELSE IF ~earliest_modification.ok THEN earliest_modification
        ELSE IF ~latest_modification.ok THEN latest_modification
        ELSE Ok([file_type |-> IF file_type_desc = Wildcard THEN None
                               ELSE Some(file_type_desc),
                 min_size |-> min_size.val,
                 max_size |-> max_size.val,
                 earliest_modification |-> earliest_modification.val,
                 latest_modification |-> latest_modification.val])

(***************************************************************************)
(* davctrl.rs: put                                                         *)
(*                                                                         *)
(* env = [open, response]: whether File::open succeeds and the transport's *)
(* answer to the upload.  Every operator returns the result together with  *)
(* the events it caused.                                                   *)
(***************************************************************************)
\* a plausible slip: the source is not tested before it is opened, so a missing
\* file surfaces as the I/O error of File::open
_put_one_unchecked(client, fsys, file_path, env, target_url, item) ==
    IF ~(is_file(fsys, file_path) /\ env.open)
    THEN [result |-> Err("Local", "open"), events |-> <<>>]
    ELSE [result |-> IF IsNone(env.response)
                     THEN Err("Dav", "request")
                     ELSE _ensure_response_ok(
                             [url |-> target_url, status |-> Unwrap(env.response)]),
          events |-> <<TransportEv("PUT", target_url, client, item)>>]

_put_one(client, fsys, file_path, env, target_url, item) ==
    IF is_file(fsys, file_path)
    THEN IF ~env.open
         THEN [result |-> Err("Local", "open"), events |-> <<>>]
         ELSE [result |-> IF IsNone(env.response)
                          THEN Err("Dav", "request")
                          ELSE _ensure_response_ok(
                                  [url |-> target_url, status |-> Unwrap(env.response)]),
               events |-> <<TransportEv("PUT", target_url, client, item)>>]
    ELSE [result |-> Err("InvalidSource", "Not an existing file"), events |-> <<>>]

\* a plausible slip: the file's name replaces the last segment of every target
put_body_always_join(client, fsys, file_paths, envs, target_base, item) ==
    LET file_path == file_paths[item]
    IN  IF ~path_ends_with_slash(target_base) /\ Len(file_paths) # 1
        THEN [result |-> Err("InvalidDestination",
                             "not a directory and cannot receive multiple files"),
              events |-> <<>>]
        ELSE IF IsSome(file_name(file_path))
             THEN LET joined == join(target_base, Unwrap(file_name(file_path)))
                  IN  IF joined.ok
                      THEN _put_one(client, fsys, file_path, envs[item], joined.val, item)
                      ELSE [result |-> Err("InvalidSource", "is not a valid URL"),
                            events |-> <<>>]
             ELSE [result |-> Err("InvalidSource", "does not end with a file name"),
                   events |-> <<>>]

\* a plausible slip: a plain-resource target accepts every file of the batch
put_body_any_count(client, fsys, file_paths, envs, target_base, item) ==
    LET file_path == file_paths[item]
    IN  IF ~path_ends_with_slash(target_base)
        THEN _put_one(client, fsys, file_path, envs[item], target_base, item)
        ELSE IF IsSome(file_name(file_path))
             THEN LET joined == join(target_base, Unwrap(file_name(file_path)))
                  IN  IF joined.ok
                      THEN _put_one(client, fsys, file_path, envs[item], joined.val, item)
                      ELSE [result |-> Err("InvalidSource", "is not a valid URL"),
                            events |-> <<>>]
             ELSE [result |-> Err("InvalidSource", "does not end with a file name"),
                   events |-> <<>>]

\* one pass of put's loop body, for the file at index item
put_body(client, fsys, file_paths, envs, target_base, item) ==
    LET file_path == file_paths[item]
    IN  IF ~path_ends_with_slash(target_base)
        THEN IF Len(file_paths) = 1
             THEN _put_one(client, fsys, file_path, envs[item], target_base, item)
             ELSE [result |-> Err("InvalidDestination",
                                  "not a directory and cannot receive multiple files"),
                   events |-> <<>>]
        ELSE IF IsSome(file_name(file_path))
             THEN LET joined == join(target_base, Unwrap(file_name(file_path)))
                  IN  IF joined.ok
                      THEN _put_one(client, fsys, file_path, envs[item], joined.val, item)
                      ELSE [result |-> Err("InvalidSource", "is not a valid URL"),
                            events |-> <<>>]
             ELSE [result |-> Err("InvalidSource", "does not end with a file name"),
                   events |-> <<>>]

\* a plausible slip: the loop stops at the first failed file
RECURSIVE put_loop_fail_fast(_, _, _, _, _, _, _, _)
put_loop_fail_fast(client, fsys, file_paths, envs, target_base, item, retvec, evs) ==
    IF item > Len(file_paths) \/ (item > 1 /\ ~retvec[item - 1].ok)
    THEN [retvec |-> retvec, events |-> evs]
    ELSE LET step == put_body(client, fsys, file_paths, envs, target_base, item)
         IN  put_loop_fail_fast(client, fsys, file_paths, envs, target_base, item + 1,
                                Append(retvec, step.result), evs \o step.events)

\* put's for loop from index item on, retvec and evs accumulated so far
RECURSIVE put_loop(_, _, _, _, _, _, _, _)
put_loop(client, fsys, file_paths, envs, target_base, item, retvec, evs) ==
    IF item > Len(file_paths)
    THEN [retvec |-> retvec, events |-> evs]
    ELSE LET step == put_body(client, fsys, file_paths, envs, target_base, item)
         IN  put_loop(client, fsys, file_paths, envs, target_base, item + 1,
                      Append(retvec, step.result), evs \o step.events)

ResolveEv(url, built, item) ==
    [ev |-> "resolve", url |-> url, client |-> built.client,
     warned |-> built.warned, item |-> item]

put(nrc, fsys, file_paths, envs, target_base) ==
    LET built == _build_client(nrc, target_base)
    IN  put_loop(built.client, fsys, file_paths, envs, target_base, 1,
                 <<>>, <<ResolveEv(target_base, built, 0)>>)

(***************************************************************************)
(* davctrl.rs: get                                                         *)
(*                                                                         *)
(* env = [create, response, copy]: whether File::create succeeds, the      *)
(* transport's answer to the download, and how streaming the body ends     *)
(* ("ok", "copy_err" from copy_to, "flush_err" from flush).                *)
(***************************************************************************)
\* a plausible slip: the file is named relative to the working directory
path_join_ignoring_dir(dir, filename) == IF filename = "" THEN <<>> ELSE <<filename>>

\* Path::join with one more component; an empty component names the directory
path_join(dir, filename) == IF filename = "" THEN dir ELSE Append(dir, filename)

\* File::create needs an existing parent directory and a path that is no directory
can_create(fsys, path) ==
    /\ Len(path) > 0
    /\ Last(path) # ".."
    /\ is_dir(fsys, Front(path))
    /\ ~is_dir(fsys, path)

write_file(fsys, path, content) ==
    [fsys EXCEPT !.files = (path :> content) @@ fsys.files]

\* a plausible slip: the destination is not checked before the download starts
_get_one_unchecked_dir(client, fsys, source, env, target_dir, item) ==
    IF IsNone(path_segments(source))
    THEN [result |-> Err("InvalidSource", "contains no filename"),
          fs |-> fsys, events |-> <<>>]
    ELSE LET path    == path_join(target_dir, Last(Unwrap(path_segments(source))))
             request == TransportEv("GET", source, client, item)
         IN  IF ~(env.create /\ can_create(fsys, path))
             THEN [result |-> Err("Local", "create"), fs |-> fsys, events |-> <<>>]
             ELSE [result |-> Ok([url |-> source, status |-> 200]),
                   fs |-> write_file(fsys, path, Content("body", Some(source))),
                   events |-> <<[ev |-> "create", path |-> path, item |-> item], request>>]

_get_one(client, fsys, source, env, target_dir, item) ==
    IF is_dir(fsys, target_dir)
    THEN IF IsNone(path_segments(source))
         THEN [result |-> Err("InvalidSource", "contains no filename"),
               fs |-> fsys, events |-> <<>>]
         ELSE
         LET filename == Last(Unwrap(path_segments(source)))
             path     == path_join(target_dir, filename)
             created  == write_file(fsys, path, Content("empty", None))
             creation == [ev |-> "create", path |-> path, item |-> item]
             request  == TransportEv("GET", source, client, item)
         IN  IF ~(env.create /\ can_create(fsys, path))
             THEN [result |-> Err("Local", "create"), fs |-> fsys, events |-> <<>>]
             ELSE IF IsNone(env.response)
             THEN [result |-> Err("Dav", "request"), fs |-> created,
                   events |-> <<creation, request>>]
             ELSE
             LET response == [url |-> source, status |-> Unwrap(env.response)]
                 checked  == _ensure_response_ok(response)
             IN  IF ~checked.ok
                 THEN [result |-> checked, fs |-> created,
                       events |-> <<creation, request>>]
                 ELSE IF env.copy = "copy_err"
                 THEN [result |-> Err("Dav", "body"),
                       fs |-> write_file(fsys, path, Content("partial", Some(source))),
                       events |-> <<creation, request>>]
                 ELSE IF env.copy = "flush_err"
                 THEN [result |-> Err("Local", "flush"),
                       fs |-> write_file(fsys, path, Content("partial", Some(source))),
                       events |-> <<creation, request>>]
                 ELSE [result |-> Ok(response),
                       fs |-> write_file(fsys, path, Content("body", Some(source))),
                       events |-> <<creation, request>>]
    ELSE [result |-> Err("InvalidDestination", "is not a directory"),
          fs |-> fsys, events |-> <<>>]

\* a plausible slip: the client built for the first source serves the batch
RECURSIVE get_loop_first_client(_, _, _, _, _, _, _, _)
get_loop_first_client(nrc, fsys, sources, envs, target_dir, item, retvec, evs) ==
    IF item > Len(sources)
    THEN [retvec |-> retvec, fs |-> fsys, events |-> evs]
    ELSE LET source == sources[item]
             built  == _build_client(nrc, sources[1])
             step   == _get_one(built.client, fsys, source, envs[item], target_dir, item)
         IN  get_loop_first_client(nrc, step.fs, sources, envs, target_dir, item + 1,
                                   Append(retvec, step.result),
                                   evs \o (IF item = 1
                                           THEN <<ResolveEv(source, built, item)>>
                                           ELSE <<>>) \o step.events)

\* get's for loop from index item on
RECURSIVE get_loop(_, _, _, _, _, _, _, _)
get_loop(nrc, fsys, sources, envs, target_dir, item, retvec, evs) ==
    IF item > Len(sources)
    THEN [retvec |-> retvec, fs |-> fsys, events |-> evs]
    ELSE LET source == sources[item]
             built  == _build_client(nrc, source)
             step   == _get_one(built.client, fsys, source, envs[item], target_dir, item)
         IN  get_loop(nrc, step.fs, sources, envs, target_dir, item + 1,
                      Append(retvec, step.result),
                      evs \o <<ResolveEv(source, built, item)>> \o step.events)

get(nrc, fsys, sources, envs, target_dir) ==
    get_loop(nrc, fsys, sources, envs, target_dir, 1, <<>>, <<>>)

(***************************************************************************)
(* davctrl.rs: ls and delete                                               *)
(*                                                                         *)
(* The transport's answer to a listing is Option([status, body]); body is  *)
(* Option(root), None when it is no well-formed XML; the root element is   *)
(* [name, ns, children].                                                   *)
(***************************************************************************)
\* Element::is
is(element, name, namespace) == element.name = name /\ element.ns = namespace

_read_attributes_from_response(base, response) ==
    IF ~is(response, "response", "DAV:")
    THEN Err("Local", "InvalidData")
    ELSE Ok(CatalogueInfo_new(base, response))

\* a plausible slip: every child of the root is taken for an entry
RECURSIVE ls_loop_every_child(_, _, _, _, _)
ls_loop_every_child(url_to_list, filter, children, i, retvec) ==
    IF i > Len(children) THEN Ok(retvec)
    ELSE LET attrs == CatalogueInfo_new(url_to_list, children[i])
         IN  ls_loop_every_child(url_to_list, filter, children, i + 1,
                                 IF matches(filter, attrs)
                                 THEN Append(retvec, attrs) ELSE retvec)

\* ls's for loop over the root's children from index i on
RECURSIVE ls_loop(_, _, _, _, _)
ls_loop(url_to_list, filter, children, i, retvec) ==
    IF i > Len(children) THEN Ok(retvec)
    ELSE LET content == children[i]
         IN  IF is(content, "response", "DAV:")
             THEN LET attrs == _read_attributes_from_response(url_to_list, content)
                  IN  IF ~attrs.ok THEN attrs
                      ELSE ls_loop(url_to_list, filter, children, i + 1,
                                   IF matches(filter, attrs.val)
                                   THEN Append(retvec, attrs.val) ELSE retvec)
             ELSE ls_loop(url_to_list, filter, children, i + 1, retvec)

\* a plausible slip: the root's name is not checked
ls_parse_any_root(url_to_list, filter, answer) ==
    IF IsNone(answer) THEN Err("Dav", "request")
    ELSE LET checked == _ensure_response_ok([url |-> url_to_list,
                                             status |-> Unwrap(answer).status])
         IN  IF ~checked.ok THEN checked
             ELSE IF IsNone(Unwrap(answer).body) THEN Err("Local", "DomError")
             ELSE ls_loop(url_to_list, filter, Unwrap(Unwrap(answer).body).children,
                          1, <<>>)

\* ls from the transport's answer on: status check, XML root check, the loop
ls_parse(url_to_list, filter, answer) ==
    IF IsNone(answer) THEN Err("Dav", "request")
    ELSE LET checked == _ensure_response_ok([url |-> url_to_list,
                                             status |-> Unwrap(answer).status])
         IN  IF ~checked.ok THEN checked
             ELSE IF IsNone(Unwrap(answer).body) THEN Err("Local", "DomError")
             ELSE LET root == Unwrap(Unwrap(answer).body)
                  IN  IF ~is(root, "multistatus", "DAV:")
                      THEN Err("Local", "InvalidData")
                      ELSE ls_loop(url_to_list, filter, root.children, 1, <<>>)

ls(nrc, url_to_list, filter, answer) ==
    LET built == _build_client(nrc, url_to_list)
    IN  [result |-> ls_parse(url_to_list, filter, answer),
         events |-> <<ResolveEv(url_to_list, built, 0),
                      [ev |-> "transport", method |-> "PROPFIND", depth |-> "1",
                       url |-> url_to_list, client |-> built.client, item |-> 0]>>]

\* a plausible slip: the status of the answer is not examined
delete_any_status(nrc, url_to_delete, answer) ==
    LET built == _build_client(nrc, url_to_delete)
    IN  [result |-> IF IsNone(answer) THEN Err("Dav", "request")
                    ELSE Ok([url |-> url_to_delete, status |-> Unwrap(answer)]),
         events |-> <<ResolveEv(url_to_delete, built, 0),
                      TransportEv("DELETE", url_to_delete, built.client, 0)>>]

\* the transport's answer to a deletion is Option(status)
delete(nrc, url_to_delete, answer) ==
    LET built == _build_client(nrc, url_to_delete)
    IN  [result |-> IF IsNone(answer) THEN Err("Dav", "request")
                    ELSE _ensure_response_ok(
                            [url |-> url_to_delete, status |-> Unwrap(answer)]),
         events |-> <<ResolveEv(url_to_delete, built, 0),
                      TransportEv("DELETE", url_to_delete, built.client, 0)>>]

(***************************************************************************)
(* interactive.rs: DavCmdController                                        *)
(*                                                                         *)
(* A command's arguments are the sequence of its words; its result is      *)
(* Ok(TRUE) or a CmdControllerError.  The listing is answered as for ls,   *)
(* and delete_answers[i] is the transport's answer to the i-th deletion.   *)
(***************************************************************************)
\* From<DavCtrlError> for CmdControllerError
CmdError_from(e) ==
    CASE e.err = "Local" -> Err("IoError", e.detail)
      [] e.err = "Dav" -> Err("DavError", e.detail)
      [] e.err = "InvalidSource" -> Err("IllegalUse", "Invalid source")
      [] e.err = "InvalidDestination" -> Err("IllegalUse", "Invalid destination")

\* _next_arg for the n-th word of the command
_next_arg(args, n) ==
    IF n > Len(args) THEN Err("IllegalUse", "required argument missing")
    ELSE Ok(args[n])

_url_for_path_string(self_base_url, path_str) ==
    IF IsNone(self_base_url)
    THEN Err("IllegalUse", "Not initialised, you need to call connect before put")
    ELSE LET target_url == join(Unwrap(self_base_url), path_str)
         IN  IF ~target_url.ok THEN Err("IllegalUse", "url::ParseError")
             ELSE target_url

\* the absolute URLs a session connects to: a collection, and a URL that
\* cannot be a base
AbsoluteUrls ==
    ("http://example.com/dir/" :>
        [host |-> Some([kind |-> "Domain", name |-> "example.com"]),
         cannot_be_a_base |-> FALSE, segs |-> <<"dir", "">>])
    @@ ("data:x" :> [host |-> None, cannot_be_a_base |-> TRUE, segs |-> <<"x">>])

\* Url::parse of an absolute URL
Url_parse(input) ==
    IF input \in InvalidRefs
    THEN Err("ParseUrlError", "InvalidIpv6Address")
    ELSE Ok(AbsoluteUrls[input])

\* cmd_connect: the result and the URL the session is connected to afterwards
cmd_connect(self_base_url, url_str) ==
    LET url == Url_parse(url_str)
    IN  IF ~url.ok
        THEN [result |-> Err("IllegalUse", "url::ParseError"), base_url |-> self_base_url]
        ELSE [result |-> Ok(TRUE), base_url |-> Some(url.val)]

\* a plausible slip: the loop over the listing stops at the first failed deletion
RECURSIVE delete_listed_fail_fast(_, _, _, _, _, _)
delete_listed_fail_fast(nrc, element_catalogue, delete_answers, i, last_error, evs) ==
    IF i > Len(element_catalogue) \/ IsSome(last_error)
    THEN [last_error |-> last_error, events |-> evs]
    ELSE LET url == element_catalogue[i].url
             r   == delete(nrc, url, delete_answers[i])
             did == [k \in 1..Len(r.events) |-> [r.events[k] EXCEPT !.item = i]]
         IN  delete_listed_fail_fast(nrc, element_catalogue, delete_answers, i + 1,
                                     IF r.result.ok THEN last_error ELSE Some(r.result),
                                     evs \o did)

\* cmd_delete_by_criteria's for loop from element i on
RECURSIVE delete_listed(_, _, _, _, _, _)
delete_listed(nrc, element_catalogue, delete_answers, i, last_error, evs) ==
    IF i > Len(element_catalogue)
    THEN [last_error |-> last_error, events |-> evs]
    ELSE LET url == element_catalogue[i].url
             r   == delete(nrc, url, delete_answers[i])
             did == [k \in 1..Len(r.events) |-> [r.events[k] EXCEPT !.item = i]]
         IN  delete_listed(nrc, element_catalogue, delete_answers, i + 1,
                           IF r.result.ok THEN last_error ELSE Some(r.result),
                           evs \o did)

cmd_delete_by_criteria(self_base_url, nrc, args, ls_answer, delete_answers) ==
    LET missing == {n \in 1..6 : ~_next_arg(args, n).ok}
    IN  IF missing # {}
        THEN [result |-> _next_arg(args, Len(args) + 1), events |-> <<>>]
        ELSE
        LET path_str == args[1]
            filter   == FilterCriteria_new(args[2], args[3], args[4], args[5], args[6])
        IN  IF ~filter.ok
            THEN [result |-> Err("IllegalUse", "Unparseable filter criteria"),
                  events |-> <<>>]
            ELSE
            LET target_url == _url_for_path_string(self_base_url, path_str)
            IN  IF ~target_url.ok THEN [result |-> target_url, events |-> <<>>]
                ELSE
                LET listed == ls(nrc, target_url.val, filter.val, ls_answer)
                IN  IF ~listed.result.ok
                    THEN [result |-> CmdError_from(listed.result),
                          events |-> listed.events]
                    ELSE
                    LET done == delete_listed(nrc, listed.result.val, delete_answers,
                                              1, None, listed.events)
                    IN  [result |-> IF IsNone(done.last_error) THEN Ok(TRUE)
                                    ELSE CmdError_from(Unwrap(done.last_error)),
                         events |-> done.events]

(***************************************************************************)
(* Inputs of the filter specification.                                     *)
(***************************************************************************)
Sizes == 0..U64Max
Times == 0..MaxTime
TypeStrs == StrsUpTo(MaxStrLen)

Filters ==
    [file_type : Option(TypeStrs), min_size : Option(Sizes), max_size : Option(Sizes),
     earliest_modification : Option(Times), latest_modification : Option(Times)]

FilterEntries ==
    [url : {"base"}, name : {"."}, size : Option(Sizes), date : Option(Times),
     file_type : Option(TypeStrs)]

(***************************************************************************)
(* Inputs of the filter-construction specification.                        *)
(***************************************************************************)
\* the wildcard, a type, the empty string
TypeDescs == {Wildcard, <<"a">>, <<>>}
\* the wildcard, two sizes, a size out of range, a word
SizeDescs == {Wildcard, <<"0">>, <<"1">>, <<"9">>, <<"a">>}
\* the wildcard, two times, a time out of range, one without zone, a word
TimeDescs == {Wildcard, <<"0", "Z">>, <<"1", "Z">>, <<"9", "Z">>, <<"1">>, <<"a">>}

FilterDescs ==
    [file_type : TypeDescs, min_size : SizeDescs, max_size : SizeDescs,
     earliest_modification : TimeDescs, latest_modification : TimeDescs]

(***************************************************************************)
(* Inputs of the credential specification.                                 *)
(***************************************************************************)
\* longest per-host table explored
MaxHosts == 2

Domain(n) == [kind |-> "Domain", name |-> n]
Ipv4(n) == [kind |-> "Ipv4", name |-> n]
Url(host, cbb, segs) == [host |-> host, cannot_be_a_base |-> cbb, segs |-> segs]

UrlHosts == {Domain("example.com"), Domain("other.org"), Ipv4("10.0.0.1")}
CredUrls == {Url(h, FALSE, <<"dir", "">>) : h \in Option(UrlHosts)}

Machines == [login : {"u", "v"}, password : Option({"p"})]
HostEntries == [host : {"example.com", "10.0.0.1"}, machine : Machines]
NetrcTables ==
    [hosts : UNION {[1..n -> HostEntries] : n \in 0..MaxHosts},
     default : Option(Machines)]

(***************************************************************************)
(* Inputs of the transfer specification.                                   *)
(***************************************************************************)
\* longest batch handed to put and get
MaxFiles == 2

Statuses == {200, 304, 404}

ExampleCom == Some(Domain("example.com"))
OtherOrg == Some(Domain("other.org"))

\* a collection, a plain resource, and a cannot-be-a-base URL ("mailto:x/")
TargetBases ==
    {Url(ExampleCom, FALSE, <<"dir", "">>),
     Url(OtherOrg, FALSE, <<"dir", "file">>),
     Url(None, TRUE, <<"x", "">>)}

\* two regular files, a missing file, a directory, a path without file name
PutPaths ==
    {<<"up", "a.txt">>, <<"up", "b.txt">>, <<"up", "gone.txt">>,
     <<"up", "sub">>, <<"up", "..">>}

PutEnvs ==
    {[open |-> FALSE, response |-> None]}
        \cup {[open |-> TRUE, response |-> r] : r \in Option(Statuses)}

\* a path with the environment its upload meets; the environment of a path
\* that is no regular file is never consulted, so it is left at one value
PutItems ==
    {it \in [path : PutPaths, env : PutEnvs] :
        \/ it.path \in {<<"up", "a.txt">>, <<"up", "b.txt">>}
        \/ (it.env.open /\ it.env.response = Some(200))}

\* two resources on two hosts, a collection URL, a cannot-be-a-base URL
GetSources ==
    {Url(ExampleCom, FALSE, <<"dir", "Notes.txt">>),
     Url(OtherOrg, FALSE, <<"dir", "Pres.key">>),
     Url(ExampleCom, FALSE, <<"dir", "">>),
     Url(None, TRUE, <<"x">>)}

GetEnvs ==
    {[create |-> FALSE, response |-> None, copy |-> "ok"]}
        \cup {[create |-> TRUE, response |-> r, copy |-> "ok"] :
                 r \in Option(Statuses \ {200})}
        \cup {[create |-> TRUE, response |-> Some(200), copy |-> c] :
                 c \in {"ok", "copy_err", "flush_err"}}

\* a source with the environment its download meets; the environment of a
\* source without file name is never consulted, so it is left at one value
GetItems ==
    {it \in [source : GetSources, env : GetEnvs] :
        \/ (~it.source.cannot_be_a_base /\ Last(it.source.segs) # "")
        \/ (it.env.create /\ it.env.response = Some(200) /\ it.env.copy = "ok")}

\* an existing directory, a missing one, a regular file
TargetDirs == {<<"dl">>, <<"nodir">>, <<"up", "a.txt">>}

(***************************************************************************)
(* Inputs of the parser and listing specifications.                        *)
(***************************************************************************)
\* most children of a listing's root element
MaxChildren == 2

\* property texts: numerals in and out of range, a signed numeral, a word, nothing
PropTexts == {<<"1">>, <<"+", "1">>, <<"9">>, <<"a", "b">>, <<>>}

Props ==
    [getcontentlength : Option(PropTexts), getlastmodified : Option(PropTexts),
     getcontenttype : Option(PropTexts)]

Propstats == {None, Some([prop |-> None])} \cup {Some([prop |-> Some(p)]) : p \in Props}

Hrefs == Option({"Notes.txt", "/dav/Notes.txt", "http://["})

ParseEntries == [name : {"response"}, ns : {"DAV:"}, href : Hrefs, propstat : Propstats]

ParseBases == {Url(ExampleCom, FALSE, <<"dir", "">>), Url(None, TRUE, <<"x">>)}

Entry(href, propstat) ==
    [name |-> "response", ns |-> "DAV:", href |-> href, propstat |-> propstat]
PropsOf(length, modified, type) ==
    Some([prop |-> Some([getcontentlength |-> length, getlastmodified |-> modified,
                         getcontenttype |-> type])])

\* the children a listing's root may hold: three entries, an entry without
\* properties, an element that is no entry, and an entry of a foreign namespace
LsChildren ==
    {Entry(Some("a.txt"), PropsOf(Some(<<"1">>), None, Some(<<"a">>))),
     Entry(Some("b.txt"), PropsOf(Some(<<"0">>), Some(<<"1">>), Some(<<"a", "b">>))),
     Entry(Some("sub/"), None),
     [name |-> "responsedescription", ns |-> "DAV:", href |-> None, propstat |-> None],
     [name |-> "response", ns |-> "urn:other", href |-> Some("c.txt"), propstat |-> None]}

LsRoots ==
    [name : {"multistatus", "error"}, ns : {"DAV:", "urn:other"},
     children : UNION {[1..n -> LsChildren] : n \in 0..MaxChildren}]

\* an error page that happens to be a well-formed listing
ListingShapedBody ==
    Some([name |-> "multistatus", ns |-> "DAV:",
          children |-> <<Entry(Some("a.txt"), PropsOf(Some(<<"1">>), None, Some(<<"a">>)))>>])

LsAnswers ==
    {None, Some([status |-> 404, body |-> None]), Some([status |-> 207, body |-> None]),
     Some([status |-> 304, body |-> None]),
     Some([status |-> 404, body |-> ListingShapedBody]),
     Some([status |-> 304, body |-> ListingShapedBody])}
        \cup {Some([status |-> 207, body |-> Some(root)]) : root \in LsRoots}

DeleteUrls ==
    {Url(ExampleCom, FALSE, <<"dir", "hello.txt">>), Url(OtherOrg, FALSE, <<"dir", "">>),
     Url(None, TRUE, <<"x">>)}

DeleteResponses == Option(Statuses \cup {204})

LsFilters ==
    {match_all,
     [match_all EXCEPT !.file_type = Some(<<"a">>)],
     [match_all EXCEPT !.file_type = Some(<<"a", "b">>)],
     [match_all EXCEPT !.min_size = Some(1), !.max_size = Some(1)],
     [match_all EXCEPT !.earliest_modification = Some(1)]}

LsUrls == {Url(ExampleCom, FALSE, <<"dir", "">>), Url(OtherOrg, FALSE, <<"">>)}

(***************************************************************************)
(* The server of the file-lifecycle test, as a set of resources.           *)
(*                                                                         *)
(* server maps the URL of each resource to [size, type].  An accepted PUT  *)
(* stores the body under the request's URL, an accepted DELETE removes the *)
(* resource, and a PROPFIND of depth 1 answers with one entry for the      *)
(* collection and one for each of its members.                             *)
(***************************************************************************)
\* the length of the body each local file uploads
BodyLength == (<<"up", "a.txt">> :> 1) @@ (<<"up", "b.txt">> :> 0)

\* the content type the server assigns to a resource, by its name
ContentTypeOf(url) == IF Last(url.segs) = "hello.txt" THEN <<"a">> ELSE <<"a", "b">>

\* the decimal numeral of a one-digit number
u64_text(n) == <<CHOOSE c \in DOMAIN DigitValue : DigitValue[c] = n>>

\* the member names of a collection, in the order the server lists them
ServerNames == <<"Notes.txt", "hello.txt">>

InitServer ==
    (Url(ExampleCom, FALSE, <<"dir", "Notes.txt">>) :> [size |-> 1, type |-> <<"a", "b">>])

ServerPut(srv, url, file_path) ==
    (url :> [size |-> BodyLength[file_path], type |-> ContentTypeOf(url)]) @@ srv

ServerDelete(srv, url) == [r \in DOMAIN srv \ {url} |-> srv[r]]

\* the multistatus document for a collection
Multistatus(srv, url) ==
    LET member(i) == [url EXCEPT !.segs = Front(url.segs) \o <<ServerNames[i]>>]
        present   == {i \in 1..Len(ServerNames) : member(i) \in DOMAIN srv}
        IsListed(i) == i \in present
        listed    == SelectSeq([i \in 1..Len(ServerNames) |-> i], IsListed)
    IN  [name |-> "multistatus", ns |-> "DAV:",
         children |->
            <<Entry(Some("."), PropsOf(None, None, None))>> \o
            [k \in 1..Len(listed) |->
                Entry(Some(ServerNames[listed[k]]),
                      PropsOf(Some(u64_text(srv[member(listed[k])].size)), None,
                              Some(srv[member(listed[k])].type)))]]

\* the answers the transport may give to the listing of a collection: the
\* call fails, or the server answers with its contents
PropfindAnswers(srv, url) ==
    {None, Some([status |-> 207, body |-> Some(Multistatus(srv, url))])}

\* the answers to an upload: the call fails, the server refuses, or accepts
PutAnswers == {None, Some(403), Some(201)}

\* the answers to a deletion: the call fails, the resource is locked, or the
\* server removes it; a missing resource is not found
DeleteAnswers(srv, url) ==
    IF url \in DOMAIN srv THEN {None, Some(423), Some(204)} ELSE {None, Some(404)}

\* the inputs of the lifecycle test: the URL and file it uploads, and which
\* of its two filters it lists with
LifeUrls ==
    {Url(ExampleCom, FALSE, <<"dir", "hello.txt">>),
     Url(ExampleCom, FALSE, <<"dir", "Notes.txt">>)}
LifeFiles == DOMAIN BodyLength
LifeFilterKinds == {"filter_type", "filter_size"}

\* the filters of subtest_ls_attr, for the resource the test uploads
LifeFilter(kind, hello_url, file_path) ==
    IF kind = "filter_type"
    THEN FilterCriteria_new(ContentTypeOf(hello_url), Wildcard, Wildcard, Wildcard, Wildcard).val
    ELSE FilterCriteria_new(Wildcard, u64_text(BodyLength[file_path]),
                            u64_text(BodyLength[file_path]), Wildcard, Wildcard).val

(***************************************************************************)
(* Inputs of the interactive specification.                                *)
(***************************************************************************)
\* what connect is given: a collection, a cannot-be-a-base URL, no URL at all
ConnectArgs == DOMAIN AbsoluteUrls \cup InvalidRefs

\* the filter words of a command: no constraint, a type, a size, a bad size
CmdFilterWords ==
    {<<Wildcard, Wildcard, Wildcard, Wildcard, Wildcard>>,
     <<<<"a">>, Wildcard, Wildcard, Wildcard, Wildcard>>,
     <<Wildcard, <<"1">>, <<"1">>, Wildcard, Wildcard>>,
     <<Wildcard, <<"a">>, Wildcard, Wildcard, Wildcard>>}

\* complete command lines for two paths, and lines that end too early
CmdArgs ==
    {<<path_str>> \o words : path_str \in {".", "http://["}, words \in CmdFilterWords}
        \cup {<<>>, <<".">>, <<".", Wildcard, Wildcard>>}

CmdLsAnswers ==
    {None, Some([status |-> 404, body |-> None])}
        \cup {Some([status |-> 207,
                    body |-> Some([name |-> "multistatus", ns |-> "DAV:",
                                   children |-> children])]) :
                 children \in UNION {[1..n -> LsChildren] : n \in 0..MaxChildren}}

Idle == [name |-> "idle"]

\* the credential table of the transfer specification: one entry per host
InitNetrc ==
    [hosts |-> <<[host |-> "example.com",
                  machine |-> [login |-> "u", password |-> Some("p")]],
                 [host |-> "other.org",
                  machine |-> [login |-> "v", password |-> Some("q")]]>>,
     default |-> None]

\* the local files: an upload directory, and a download directory that
\* already holds an older Notes.txt
InitFs ==
    [dirs  |-> {<<>>, <<"up">>, <<"up", "sub">>, <<"dl">>},
     files |-> (<<"up", "a.txt">> :> Content("old", None))
                  @@ (<<"up", "b.txt">> :> Content("old", None))
                  @@ (<<"dl", "Notes.txt">> :> Content("old", None))]

Init ==
    /\ netrc = InitNetrc
    /\ fs = InitFs
    /\ op = Idle
    /\ events = <<>>
    /\ server = InitServer
    /\ base_url = None

\* the caller has consumed the result of the last call
Return ==
    /\ op.name # "idle"
    /\ op' = Idle
    /\ events' = <<>>
    /\ UNCHANGED <<netrc, fs, server, base_url>>

\* FilterCriteria::matches applied to one catalogue entry
Matches ==
    /\ op.name = "idle"
    /\ \E self \in Filters, attrs \in FilterEntries :
          op' = [name |-> "matches", self |-> self, attrs |-> attrs,
                 result |-> matches(self, attrs)]
    /\ UNCHANGED <<netrc, fs, events, server, base_url>>

\* DavController::put
Put ==
    /\ op.name = "idle"
    /\ \E n \in 0..MaxFiles, target_base \in TargetBases :
         \E items \in [1..n -> PutItems] :
            LET file_paths == [i \in 1..n |-> items[i].path]
                envs       == [i \in 1..n |-> items[i].env]
                r          == put(netrc, fs, file_paths, envs, target_base)
            IN  /\ op' = [name |-> "put", file_paths |-> file_paths, envs |-> envs,
                          target_base |-> target_base, result |-> r.retvec,
                          fs_before |-> fs]
                /\ events' = r.events
    /\ UNCHANGED <<netrc, fs, server, base_url>>

\* DavController::get
Get ==
    /\ op.name = "idle"
    /\ \E n \in 0..MaxFiles, target_dir \in TargetDirs :
         \E items \in [1..n -> GetItems] :
            LET sources == [i \in 1..n |-> items[i].source]
                envs    == [i \in 1..n |-> items[i].env]
                r       == get(netrc, fs, sources, envs, target_dir)
            IN  /\ op' = [name |-> "get", sources |-> sources, envs |-> envs,
                          target_dir |-> target_dir, result |-> r.retvec,
                          fs_before |-> fs]
                /\ fs' = r.fs
                /\ events' = r.events
    /\ UNCHANGED <<netrc, server, base_url>>

Next == Put \/ Get \/ Return

Spec == Init /\ [][Next]_vars

\* the credential table as loaded from the user's netrc file
InitCred ==
    /\ netrc \in NetrcTables
    /\ fs = InitFs
    /\ op = Idle
    /\ events = <<>>
    /\ server = InitServer
    /\ base_url = None

\* DavController::set_default_credentials (the interactive login command)
SetDefaultCredentials ==
    /\ op.name = "idle"
    /\ \E username \in {"d"}, password \in {"dp"} :
          /\ netrc' = set_default_credentials(netrc, username, password)
          /\ op' = [name |-> "set_default_credentials",
                    username |-> username, password |-> password]
    /\ UNCHANGED <<fs, events, server, base_url>>

\* DavController::_build_client: credential resolution for one URL
BuildClient ==
    /\ op.name = "idle"
    /\ \E url \in CredUrls :
          LET r == _build_client(netrc, url)
          IN  op' = [name |-> "_build_client", url |-> url,
                     client |-> r.client, warned |-> r.warned]
    /\ UNCHANGED <<netrc, fs, events, server, base_url>>

NextCred == SetDefaultCredentials \/ BuildClient \/ Return

SpecCred == InitCred /\ [][NextCred]_vars

\* CatalogueInfo::new applied to one entry element
Parse ==
    /\ op.name = "idle"
    /\ \E base \in ParseBases, response \in ParseEntries :
          op' = [name |-> "CatalogueInfo_new", base |-> base, response |-> response,
                 result |-> CatalogueInfo_new(base, response)]
    /\ UNCHANGED <<netrc, fs, events, server, base_url>>

NextParse == Parse \/ Return

SpecParse == Init /\ [][NextParse]_vars

\* DavController::ls
Ls ==
    /\ op.name = "idle"
    /\ \E url_to_list \in LsUrls, filter \in LsFilters, answer \in LsAnswers :
          LET r == ls(netrc, url_to_list, filter, answer)
          IN  /\ op' = [name |-> "ls", url_to_list |-> url_to_list, filter |-> filter,
                        answer |-> answer, result |-> r.result]
              /\ events' = r.events
    /\ UNCHANGED <<netrc, fs, server, base_url>>

NextLs == Ls \/ Return

SpecLs == Init /\ [][NextLs]_vars

\* DavController::delete
Delete ==
    /\ op.name = "idle"
    /\ \E url_to_delete \in DeleteUrls, answer \in DeleteResponses :
          LET r == delete(netrc, url_to_delete, answer)
          IN  /\ op' = [name |-> "delete", url_to_delete |-> url_to_delete,
                        answer |-> answer, result |-> r.result]
              /\ events' = r.events
    /\ UNCHANGED <<netrc, fs, server, base_url>>

NextSingle == Ls \/ Delete \/ Return

SpecSingle == Init /\ [][NextSingle]_vars

\* the interactive command connect
CmdConnect ==
    /\ op.name = "idle"
    /\ \E url_str \in ConnectArgs :
          LET r == cmd_connect(base_url, url_str)
          IN  /\ base_url' = r.base_url
              /\ op' = [name |-> "cmd_connect", url_str |-> url_str, result |-> r.result]
    /\ UNCHANGED <<netrc, fs, events, server>>

\* the interactive command delete-by-criteria; the answers to deletions that
\* are never issued, and to a listing that is never requested, are left at
\* one value
CmdDeleteByCriteria ==
    /\ op.name = "idle"
    /\ \E args \in CmdArgs, ls_answer \in CmdLsAnswers,
          delete_answers \in [1..MaxChildren -> DeleteResponses] :
          \E r \in {cmd_delete_by_criteria(base_url, netrc, args, ls_answer, delete_answers)} :
          LET issued == {k \in 1..Len(r.events) :
                            r.events[k].ev = "transport" /\ r.events[k].method = "DELETE"}
          IN  /\ \A i \in (Cardinality(issued) + 1)..MaxChildren :
                    delete_answers[i] = Some(204)
              /\ Len(r.events) = 0 => ls_answer = None
              /\ op' = [name |-> "cmd_delete_by_criteria", args |-> args,
                        ls_answer |-> ls_answer, delete_answers |-> delete_answers,
                        result |-> r.result]
              /\ events' = r.events
    /\ UNCHANGED <<netrc, fs, server, base_url>>

NextCmd == CmdConnect \/ CmdDeleteByCriteria \/ Return

SpecCmd == Init /\ [][NextCmd]_vars

NextFilter == Matches \/ Return

SpecFilter == Init /\ [][NextFilter]_vars

\* FilterCriteria::new applied to five field descriptions
New ==
    /\ op.name = "idle"
    /\ \E descs \in FilterDescs :
          op' = [name |-> "FilterCriteria_new", descs |-> descs,
                 result |-> FilterCriteria_new(descs.file_type, descs.min_size,
                                               descs.max_size,
                                               descs.earliest_modification,
                                               descs.latest_modification)]
    /\ UNCHANGED <<netrc, fs, events, server, base_url>>

NextNew == New \/ Return

SpecNew == Init /\ [][NextNew]_vars

\* the lifecycle test starts: it fixes its inputs and lists the collection
LifeBegin ==
    /\ op.name = "idle"
    /\ \E hello_url \in LifeUrls, file_path \in LifeFiles, kind \in LifeFilterKinds :
          op' = [name |-> "test_file_lifecycle", pc |-> "ls_before",
                 hello_url |-> hello_url, file_path |-> file_path,
                 filter |-> LifeFilter(kind, hello_url, file_path),
                 before |-> <<>>, after_put |-> <<>>, after_delete |-> <<>>]
    /\ UNCHANGED <<netrc, fs, events, server, base_url>>

LifeLsSteps == {"ls_before", "subtest_ls_attr", "subtest_ls_attr_after_delete"}

\* one of the test's listings of the collection that holds hello_url
LifeLs ==
    /\ op.name = "test_file_lifecycle"
    /\ op.pc \in LifeLsSteps
    /\ LET testserver_url == join(op.hello_url, ".").val
       IN  \E answer \in PropfindAnswers(server, testserver_url) :
              LET r == ls(netrc, testserver_url, op.filter, answer)
              IN  /\ op' = IF ~r.result.ok THEN [op EXCEPT !.pc = "failed"]
                           ELSE CASE op.pc = "ls_before" ->
                                       [op EXCEPT !.pc = "subtest_put",
                                                  !.before = r.result.val]
                                  [] op.pc = "subtest_ls_attr" ->
                                       [op EXCEPT !.pc = "subtest_delete",
                                                  !.after_put = r.result.val]
                                  [] op.pc = "subtest_ls_attr_after_delete" ->
                                       [op EXCEPT !.pc = "passed",
                                                  !.after_delete = r.result.val]
                  /\ events' = r.events
    /\ UNCHANGED <<netrc, fs, server, base_url>>

\* subtest_put: the file is put to hello_url
LifePut ==
    /\ op.name = "test_file_lifecycle"
    /\ op.pc = "subtest_put"
    /\ \E open \in BOOLEAN, response \in PutAnswers :
          LET r == put(netrc, fs, <<op.file_path>>,
                       <<[open |-> open, response |-> response]>>, op.hello_url)
              stored == {k \in 1..Len(r.events) :
                            /\ r.events[k].ev = "transport"
                            /\ response = Some(201)}
          IN  /\ server' = IF stored = {} THEN server
                            ELSE ServerPut(server, r.events[CHOOSE k \in stored : TRUE].url,
                                           op.file_path)
              /\ op' = [op EXCEPT !.pc = IF r.retvec[1].ok THEN "subtest_ls_attr"
                                         ELSE "failed"]
              /\ events' = r.events
    /\ UNCHANGED <<netrc, fs, base_url>>

\* subtest_delete: hello_url is deleted
LifeDelete ==
    /\ op.name = "test_file_lifecycle"
    /\ op.pc = "subtest_delete"
    /\ \E answer \in DeleteAnswers(server, op.hello_url) :
          LET r == delete(netrc, op.hello_url, answer)
          IN  /\ server' = IF answer = Some(204) THEN ServerDelete(server, op.hello_url)
                            ELSE server
              /\ op' = [op EXCEPT !.pc = IF r.result.ok
                                         THEN "subtest_ls_attr_after_delete"
                                         ELSE "failed"]
              /\ events' = r.events
    /\ UNCHANGED <<netrc, fs, base_url>>

NextLife == LifeBegin \/ LifeLs \/ LifePut \/ LifeDelete \/ Return

SpecLife == Init /\ [][NextLife]_vars

(***************************************************************************)
(* Claims about FilterCriteria::matches (checked under SpecFilter).        *)
(***************************************************************************)
MatchesDone == op.name = "matches"

TimeUnconstrained(self) ==
    IsNone(self.earliest_modification) /\ IsNone(self.latest_modification)

SizeUnconstrained(self) == IsNone(self.min_size) /\ IsNone(self.max_size)

\* C4: with typeConstraint set and the entry carrying a contentType (size and
\* time unconstrained), matches is true iff contentType contains typeConstraint
C4_TypeSubstring ==
    (/\ MatchesDone
     /\ IsSome(op.self.file_type) /\ IsSome(op.attrs.file_type)
     /\ SizeUnconstrained(op.self) /\ TimeUnconstrained(op.self))
    => (op.result = IsSome(StrFind(Unwrap(op.attrs.file_type), Unwrap(op.self.file_type))))

\* C7: with type and time unconstrained, an entry of size s matches iff
\* lo <= s <= hi (unset bounds: 0 and the maximum); for an entry without size
\* the verdict is the same under every choice of size bounds
C7_SizeBounds ==
    MatchesDone =>
       /\ (/\ IsSome(op.attrs.size)
           /\ IsNone(op.self.file_type) /\ TimeUnconstrained(op.self))
          => (op.result = (/\ UnwrapOr(op.self.min_size, 0) <= Unwrap(op.attrs.size)
                           /\ Unwrap(op.attrs.size) <= UnwrapOr(op.self.max_size, U64Max)))
       /\ IsNone(op.attrs.size)
          => \A lo \in Option(Sizes), hi \in Option(Sizes) :
                matches([op.self EXCEPT !.min_size = lo, !.max_size = hi], op.attrs)
                    = op.result

\* an entry whose size lies on the upper bound is accepted, with a lower
\* bound set as well
C7_Witness ==
    /\ MatchesDone
    /\ IsNone(op.self.file_type) /\ TimeUnconstrained(op.self)
    /\ IsSome(op.attrs.size) /\ IsSome(op.self.min_size) /\ IsSome(op.self.max_size)
    /\ Unwrap(op.self.min_size) < Unwrap(op.self.max_size)
    /\ Unwrap(op.attrs.size) = Unwrap(op.self.max_size)
    /\ op.result = TRUE

(***************************************************************************)
(* Claims about credential resolution (checked under SpecCred).            *)
(***************************************************************************)
BuildClientDone == op.name = "_build_client"

\* the indices of the per-host entries whose host name equals the URL's domain
DomainHits(nrc, url) ==
    {i \in 1..Len(nrc.hosts) :
        /\ IsSome(url.host)
        /\ Unwrap(url.host).kind = "Domain"
        /\ nrc.hosts[i].host = Unwrap(url.host).name}

FirstHit(nrc, url) ==
    nrc.hosts[CHOOSE i \in DomainHits(nrc, url) : \A j \in DomainHits(nrc, url) : i <= j]

\* client carries the machine's login, and its password when it has one
CarriesCredentialsOf(machine, client) ==
    /\ client.login = machine.login
    /\ IsSome(machine.password) => client.password = Unwrap(machine.password)

\* client is what a machine entry yields: its pair, or nothing without a password
YieldOf(machine) ==
    IF IsSome(machine.password)
    THEN [login |-> machine.login, password |-> Unwrap(machine.password)]
    ELSE Anonymous

SetDefaultLeavesHosts ==
    op'.name = "set_default_credentials" =>
        /\ netrc'.hosts = netrc.hosts
        /\ netrc'.default = Some([login |-> op'.username,
                                  password |-> Some(op'.password)])

\* C5 as stated: resolution returns the matching per-host entry's pair, else
\* the latest default's pair, else empty credentials; set-default-credentials
\* leaves the per-host entries unchanged
C5_Resolution ==
    [][/\ SetDefaultLeavesHosts
       /\ op'.name = "_build_client" =>
            IF DomainHits(netrc', op'.url) # {}
            THEN \E i \in DomainHits(netrc', op'.url) :
                    CarriesCredentialsOf(netrc'.hosts[i].machine, op'.client)
            ELSE IF IsSome(netrc'.default)
                 THEN CarriesCredentialsOf(Unwrap(netrc'.default), op'.client)
                 ELSE op'.client = Anonymous]_vars

\* C5 amended: for a URL with a host, resolution returns the pair of the first
\* per-host entry whose name equals the URL's domain, else of the latest
\* default; the chosen entry yields empty credentials when it has no password
\* (a matching entry without password does not fall through to the default),
\* and a URL without host always resolves to empty credentials
C5_ResolutionWithPassword ==
    [][/\ SetDefaultLeavesHosts
       /\ op'.name = "_build_client" =>
            IF IsNone(op'.url.host) THEN op'.client = Anonymous
            ELSE IF DomainHits(netrc', op'.url) # {}
                 THEN op'.client = YieldOf(FirstHit(netrc', op'.url).machine)
                 ELSE IF IsSome(netrc'.default)
                      THEN op'.client = YieldOf(Unwrap(netrc'.default))
                      ELSE op'.client = Anonymous]_vars

\* a per-host entry wins over a default installed by set-default-credentials
C5_Witness ==
    /\ BuildClientDone
    /\ DomainHits(netrc, op.url) # {}
    /\ netrc.default = Some([login |-> "d", password |-> Some("dp")])
    /\ op.client = [login |-> "u", password |-> "p"]

HostNotInTable == BuildClientDone /\ IsSome(op.url.host) /\ DomainHits(netrc, op.url) = {}

\* C6 as stated: resolving for a host that is not in the table emits the
\* diagnostic, whether the default or empty credentials are returned
C6_DiagnosticOnFallback == HostNotInTable => op.warned

\* C6 amended: for a host that is not in the table the diagnostic is emitted
\* exactly when empty credentials are returned (no default, or a default
\* without password); when the default's pair is returned nothing is emitted
C6_DiagnosticOnAnonymousOnly ==
    HostNotInTable =>
        IF IsSome(netrc.default) /\ IsSome(Unwrap(netrc.default).password)
        THEN /\ ~op.warned
             /\ op.client = YieldOf(Unwrap(netrc.default))
        ELSE /\ op.warned
             /\ op.client = Anonymous

\* the default's pair is returned for an unknown domain, silently
C6_Witness ==
    /\ HostNotInTable
    /\ Unwrap(op.url.host) = Domain("other.org")
    /\ IsSome(netrc.default) /\ IsSome(Unwrap(netrc.default).password)
    /\ op.client.login = Unwrap(netrc.default).login
    /\ ~op.warned

(***************************************************************************)
(* Claims about put and get (checked under Spec).                          *)
(***************************************************************************)
PutDone == op.name = "put"
GetDone == op.name = "get"

TransportCalls == {k \in 1..Len(events) : events[k].ev = "transport"}
TransportCallsOf(item) == {k \in TransportCalls : events[k].item = item}
CreationsOf(item) ==
    {k \in 1..Len(events) : events[k].ev = "create" /\ events[k].item = item}

\* C1: put of two or more files to a target whose path does not end with '/'
\* returns one InvalidDestination per file and performs no transport call
C1_MultiPutToPlainTarget ==
    (/\ PutDone
     /\ Len(op.file_paths) >= 2
     /\ Last(op.target_base.segs) # "")
    => /\ Len(op.result) = Len(op.file_paths)
       /\ \A i \in 1..Len(op.result) :
             ~op.result[i].ok /\ op.result[i].err = "InvalidDestination"
       /\ TransportCalls = {}

\* two existing regular files both get InvalidDestination
C1_Witness ==
    /\ PutDone
    /\ Last(op.target_base.segs) # ""
    /\ op.file_paths = <<<<"up", "a.txt">>, <<"up", "b.txt">>>>
    /\ Len(op.result) = 2
    /\ op.result[1].err = "InvalidDestination"
    /\ op.result[2].err = "InvalidDestination"

\* whether file i of a put reaches the transport, judged from that file alone
PutReachesTransport(i) ==
    /\ \/ Last(op.target_base.segs) # "" /\ Len(op.file_paths) = 1
       \/ /\ Last(op.target_base.segs) = ""
          /\ ~op.target_base.cannot_be_a_base
          /\ Last(op.file_paths[i]) # ".."
    /\ op.file_paths[i] \in DOMAIN op.fs_before.files
    /\ op.envs[i].open

PutTarget(i) ==
    IF Last(op.target_base.segs) # "" THEN op.target_base
    ELSE [op.target_base EXCEPT
             !.segs = Front(op.target_base.segs) \o <<Last(op.file_paths[i])>>]

\* whether source i of a get reaches the transport, judged from that source alone
GetReachesTransport(i) ==
    /\ op.target_dir \in op.fs_before.dirs
    /\ ~op.sources[i].cannot_be_a_base
    /\ Last(op.sources[i].segs) # ""
    /\ op.envs[i].create

\* C2: put and get never fail fast: one result per input, result i is the
\* outcome of item i alone, and an item is attempted whatever happened to
\* the items before it
C2_NeverFailFast ==
    /\ PutDone =>
         /\ Len(op.result) = Len(op.file_paths)
         /\ \A i \in 1..Len(op.file_paths) :
               /\ PutReachesTransport(i) <=> TransportCallsOf(i) # {}
               /\ \A k \in TransportCallsOf(i) : events[k].url = PutTarget(i)
               /\ op.result[i].ok <=>
                     /\ PutReachesTransport(i)
                     /\ IsSome(op.envs[i].response)
                     /\ Unwrap(op.envs[i].response) \in 200..299
               /\ op.result[i].ok => op.result[i].val.url = PutTarget(i)
    /\ GetDone =>
         /\ Len(op.result) = Len(op.sources)
         /\ \A i \in 1..Len(op.sources) :
               /\ GetReachesTransport(i) <=> TransportCallsOf(i) # {}
               /\ \A k \in TransportCallsOf(i) : events[k].url = op.sources[i]
               /\ op.result[i].ok <=>
                     /\ GetReachesTransport(i)
                     /\ IsSome(op.envs[i].response)
                     /\ Unwrap(op.envs[i].response) \in 200..299
                     /\ op.envs[i].copy = "ok"
               /\ op.result[i].ok => op.result[i].val.url = op.sources[i]

\* the first file fails on the server, the second is still uploaded
C2_Witness ==
    /\ PutDone
    /\ Len(op.result) = 2
    /\ ~op.result[1].ok /\ op.result[1].err = "Dav"
    /\ op.result[2].ok
    /\ TransportCallsOf(2) # {}

\* C3: in get, a source whose transport call fails or answers non-2xx has
\* had no local file created or truncated for it
C3_NoFileBeforeTransportSucceeds ==
    GetDone =>
        \A i \in 1..Len(op.sources) :
            (/\ TransportCallsOf(i) # {}
             /\ \/ IsNone(op.envs[i].response)
                \/ Unwrap(op.envs[i].response) \notin 200..299)
            => /\ CreationsOf(i) = {}
               /\ Len(op.sources) = 1 => fs = op.fs_before

(***************************************************************************)
(* Claims about ls (checked under SpecLs).                                 *)
(***************************************************************************)
LsDone == op.name = "ls"

\* the listing request was answered 2xx with a well-formed XML document
ListingReceived ==
    /\ LsDone
    /\ IsSome(op.answer)
    /\ Unwrap(op.answer).status \in 200..299
    /\ IsSome(Unwrap(op.answer).body)

ListingRoot == Unwrap(Unwrap(op.answer).body)

IsMultistatus(root) == root.name = "multistatus" /\ root.ns = "DAV:"
IsEntryElement(child) == child.name = "response" /\ child.ns = "DAV:"

\* C8: on a successful multistatus listing ls returns exactly the parsed entry
\* children that satisfy the filter, in the server's order, skipping children
\* that are no entry elements; with match_all, one entry per entry child
C8_ListingIsFilteredSubsequence ==
    (ListingReceived /\ IsMultistatus(ListingRoot)) =>
        LET entries == SelectSeq(ListingRoot.children, IsEntryElement)
            parsed  == [i \in 1..Len(entries) |->
                           CatalogueInfo_new(op.url_to_list, entries[i])]
            Keeps(attrs) == matches(op.filter, attrs)
        IN  /\ op.result.ok
            /\ op.result.val = SelectSeq(parsed, Keeps)
            /\ op.filter = match_all => Len(op.result.val) = Len(entries)

\* a non-entry child is skipped and a non-matching entry dropped
C8_Witness ==
    /\ ListingReceived /\ IsMultistatus(ListingRoot)
    /\ op.filter = [match_all EXCEPT !.min_size = Some(1), !.max_size = Some(1)]
    /\ Len(ListingRoot.children) = 2
    /\ ListingRoot.children[1].name = "responsedescription"
    /\ ListingRoot.children[2].href = Some("a.txt")
    /\ op.result.ok
    /\ Len(op.result.val) = 1
    /\ op.result.val[1].name = "a.txt"
    /\ op.result.val[1].size = Some(1)

\* C9: a successful response whose root is no multistatus element makes ls
\* fail with the malformed-data error, whatever children the root has
C9_ForeignRootIsMalformed ==
    (ListingReceived /\ ~IsMultistatus(ListingRoot)) =>
        /\ ~op.result.ok
        /\ op.result.err = "Local"
        /\ op.result.detail = "InvalidData"

\* a root of another name holding a valid entry is rejected
C9_Witness ==
    /\ ListingReceived
    /\ ListingRoot.name = "error" /\ ListingRoot.ns = "DAV:"
    /\ Len(ListingRoot.children) > 0
    /\ IsEntryElement(ListingRoot.children[1])
    /\ ~op.result.ok /\ op.result.detail = "InvalidData"

(***************************************************************************)
(* Claims about CatalogueInfo::new (checked under SpecParse).              *)
(***************************************************************************)
ParseDone == op.name = "CatalogueInfo_new"

\* the text of a property as the parser reaches it, if it is present
PropertyText(response, property) ==
    IF IsSome(response.propstat) /\ IsSome(Unwrap(response.propstat).prop)
    THEN Unwrap(Unwrap(response.propstat).prop)[property]
    ELSE None

\* Some(value) iff the property is present and its text parses
Extracted(text, parsed) ==
    IF IsSome(text) /\ parsed.ok THEN Some(parsed.val) ELSE None

\* C10: each of size, date and content type is Some(value) iff its property is
\* present and parses, whatever the other two are; name and url are always set
C10_IndependentProperties ==
    ParseDone =>
        LET length   == PropertyText(op.response, "getcontentlength")
            modified == PropertyText(op.response, "getlastmodified")
            type     == PropertyText(op.response, "getcontenttype")
        IN
        /\ op.result.size = Extracted(length, parse_u64(UnwrapOr(length, <<>>)))
        /\ op.result.date = Extracted(modified, parse_date(UnwrapOr(modified, <<>>)))
        /\ op.result.file_type = Extracted(type, parse_string(UnwrapOr(type, <<>>)))
        /\ op.result.name = UnwrapOr(op.response.href, ".")
        /\ op.result.url \in
              {op.base} \cup {[op.base EXCEPT !.segs = segs] :
                                 segs \in {<<"dir", "">>, <<"dir", "Notes.txt">>,
                                           <<"dav", "Notes.txt">>}}

\* an unparsable size and a missing date leave the content type in place
C10_Witness ==
    /\ ParseDone
    /\ PropertyText(op.response, "getcontentlength") = Some(<<"9">>)
    /\ PropertyText(op.response, "getlastmodified") = None
    /\ PropertyText(op.response, "getcontenttype") = Some(<<"a", "b">>)
    /\ op.result.size = None
    /\ op.result.date = None
    /\ op.result.file_type = Some(<<"a", "b">>)

(***************************************************************************)
(* Further claims about put and get (checked under Spec).                  *)
(***************************************************************************)
Creations == {k \in 1..Len(events) : events[k].ev = "create"}

\* C11: get into a target that does not exist as a directory returns one
\* InvalidDestination per source, performs no transport call and creates no
\* local file
C11_MissingTargetDir ==
    (GetDone /\ op.target_dir \notin op.fs_before.dirs) =>
        /\ Len(op.result) = Len(op.sources)
        /\ \A i \in 1..Len(op.result) :
              ~op.result[i].ok /\ op.result[i].err = "InvalidDestination"
        /\ TransportCalls = {}
        /\ Creations = {}
        /\ fs = op.fs_before

\* two downloadable sources into a missing directory are both refused
C11_Witness ==
    /\ GetDone
    /\ op.target_dir = <<"nodir">>
    /\ Len(op.sources) = 2
    /\ \A i \in 1..2 :
          /\ GetReachesTransport(i) = FALSE
          /\ ~op.sources[i].cannot_be_a_base /\ Last(op.sources[i].segs) # ""
          /\ op.envs[i].create /\ op.envs[i].response = Some(200)
          /\ op.result[i].err = "InvalidDestination"

\* put of exactly one existing regular file to a plain-resource target
SinglePutToPlainTarget ==
    /\ PutDone
    /\ Len(op.file_paths) = 1
    /\ op.file_paths[1] \in DOMAIN op.fs_before.files
    /\ Last(op.target_base.segs) # ""

\* C12 as stated: put of exactly one existing regular file to a target whose
\* path does not end with '/' performs exactly one upload, to targetBase
\* unchanged
C12_SingleUploadVerbatim ==
    SinglePutToPlainTarget =>
        /\ Cardinality(TransportCalls) = 1
        /\ \A k \in TransportCalls :
              events[k].method = "PUT" /\ events[k].url = op.target_base

\* C12 amended: such a put performs exactly one upload when the file can be
\* opened and none (a Local error result) when it cannot; the upload goes to
\* targetBase unchanged
C12_SingleUploadVerbatimIfOpened ==
    SinglePutToPlainTarget =>
        /\ Cardinality(TransportCalls) = (IF op.envs[1].open THEN 1 ELSE 0)
        /\ \A k \in TransportCalls :
              events[k].method = "PUT" /\ events[k].url = op.target_base
        /\ ~op.envs[1].open => (~op.result[1].ok /\ op.result[1].err = "Local")
        /\ op.result[1].ok => op.result[1].val.url = op.target_base

\* a.txt is uploaded to .../dir/file, not to .../dir/a.txt
C12_Witness ==
    /\ SinglePutToPlainTarget
    /\ op.file_paths[1] = <<"up", "a.txt">>
    /\ op.target_base.segs = <<"dir", "file">>
    /\ op.result[1].ok
    /\ Cardinality(TransportCalls) = 1
    /\ \A k \in TransportCalls : events[k].url.segs = <<"dir", "file">>

PutToCollection == PutDone /\ Last(op.target_base.segs) = ""

\* file i of a put is an existing regular file with a base name that joins
\* with the target
Uploadable(i) ==
    /\ op.file_paths[i] \in DOMAIN op.fs_before.files
    /\ IsSome(file_name(op.file_paths[i]))
    /\ join(op.target_base, Last(op.file_paths[i])).ok

RefusedAsInvalidSource(i) ==
    /\ ~op.result[i].ok
    /\ op.result[i].err = "InvalidSource"
    /\ TransportCallsOf(i) = {}

UploadedToJoinedUrl(i) ==
    /\ Cardinality(TransportCallsOf(i)) = 1
    /\ \A k \in TransportCallsOf(i) :
          /\ events[k].method = "PUT"
          /\ events[k].url = join(op.target_base, Last(op.file_paths[i])).val

\* C13 as stated: put to a collection uploads each existing regular file to
\* targetBase joined with its base name; a missing or non-regular file, one
\* without base name, or one whose join fails gets InvalidSource without a
\* transport call, whatever the other files of the batch are
C13_CollectionUploads ==
    PutToCollection =>
        /\ Len(op.result) = Len(op.file_paths)
        /\ \A i \in 1..Len(op.file_paths) :
              IF Uploadable(i) THEN UploadedToJoinedUrl(i) ELSE RefusedAsInvalidSource(i)

\* C13 amended: as stated, but an existing regular file is uploaded only when
\* it can be opened; when opening fails it gets a Local error without a
\* transport call
C13_CollectionUploadsIfOpened ==
    PutToCollection =>
        /\ Len(op.result) = Len(op.file_paths)
        /\ \A i \in 1..Len(op.file_paths) :
              IF ~Uploadable(i) THEN RefusedAsInvalidSource(i)
              ELSE IF op.envs[i].open THEN UploadedToJoinedUrl(i)
              ELSE /\ ~op.result[i].ok /\ op.result[i].err = "Local"
                   /\ TransportCallsOf(i) = {}

\* a missing file is refused and the file after it is uploaded under its name
C13_Witness ==
    /\ PutToCollection
    /\ op.file_paths = <<<<"up", "gone.txt">>, <<"up", "a.txt">>>>
    /\ RefusedAsInvalidSource(1)
    /\ op.result[2].ok
    /\ UploadedToJoinedUrl(2)
    /\ op.result[2].val.url.segs = <<"dir", "a.txt">>

(***************************************************************************)
(* Claims about FilterCriteria::new (checked under SpecNew).               *)
(***************************************************************************)
NewDone == op.name = "FilterCriteria_new"

ParsedFields == <<"min_size", "max_size", "earliest_modification", "latest_modification">>

FieldType(field) ==
    IF field \in {"min_size", "max_size"} THEN "u64" ELSE "DateTime<Utc>"

\* the parsed fields of descs that hold a literal other than "*" that does
\* not parse, as indices into ParsedFields
Offending(descs) ==
    {n \in 1..Len(ParsedFields) :
        /\ descs[ParsedFields[n]] # Wildcard
        /\ ~parse_as(FieldType(ParsedFields[n]), descs[ParsedFields[n]]).ok}

\* construction fails exactly when a field offends, and otherwise yields a
\* filter whose "*" fields are unconstrained and whose other fields hold the
\* values of their literals
AllOrNothing ==
    /\ op.result.ok <=> Offending(op.descs) = {}
    /\ ~op.result.ok => (op.result.err = "ParseError" /\ DOMAIN op.result = {"ok", "err", "detail"})
    /\ op.result.ok =>
          /\ op.result.val.file_type =
                (IF op.descs.file_type = Wildcard THEN None ELSE Some(op.descs.file_type))
          /\ \A n \in 1..Len(ParsedFields) :
                LET field == ParsedFields[n]
                IN  op.result.val[field] =
                       (IF op.descs[field] = Wildcard THEN None
                        ELSE Some(parse_as(FieldType(field), op.descs[field]).val))

GetPath(i) == op.target_dir \o <<Last(op.sources[i].segs)>>

\* every source of the last get had its transport call, and every call was
\* answered 2xx and delivered its body
AllTransportCallsSucceeded ==
    /\ \A i \in 1..Len(op.sources) : TransportCallsOf(i) # {}
    /\ \A k \in TransportCalls :
          /\ IsSome(op.envs[events[k].item].response)
          /\ Unwrap(op.envs[events[k].item].response) \in 200..299
          /\ op.envs[events[k].item].copy # "copy_err"

\* C19 as stated: get into an existing directory with every transport call
\* succeeding returns success for every source and leaves in targetDir, for
\* each source, a file named by the URL's last path segment that holds the
\* response body, and no new file that corresponds to no source
C19_AllDownloaded ==
    (GetDone /\ op.target_dir \in op.fs_before.dirs /\ AllTransportCallsSucceeded) =>
        /\ Len(op.result) = Len(op.sources)
        /\ \A i \in 1..Len(op.sources) :
              /\ op.result[i].ok
              /\ GetPath(i) \in DOMAIN fs.files
              /\ fs.files[GetPath(i)] = Content("body", Some(op.sources[i]))
        /\ \A path \in DOMAIN fs.files \ DOMAIN op.fs_before.files :
              \E i \in 1..Len(op.sources) : path = GetPath(i)

\* source i of a get is downloaded end to end: its URL has a file name, the
\* local file is created, the transport answers 2xx and the body is written
GetSucceeds(i) ==
    /\ GetReachesTransport(i)
    /\ IsSome(op.envs[i].response)
    /\ Unwrap(op.envs[i].response) \in 200..299
    /\ op.envs[i].copy = "ok"

\* C19 amended: get into an existing directory returns success exactly for the
\* sources that are downloaded end to end; each of them whose file name is not
\* used again by a later source of the batch leaves a file of that name
\* holding its response body; every file that was not there before is named
\* by a source, and the files named by no source are left as they were
C19_DownloadedEndToEnd ==
    (GetDone /\ op.target_dir \in op.fs_before.dirs) =>
        /\ Len(op.result) = Len(op.sources)
        /\ \A i \in 1..Len(op.sources) :
              /\ op.result[i].ok <=> GetSucceeds(i)
              /\ (/\ GetSucceeds(i)
                  /\ \A j \in (i + 1)..Len(op.sources) : GetPath(j) # GetPath(i))
                 => /\ GetPath(i) \in DOMAIN fs.files
                    /\ fs.files[GetPath(i)] = Content("body", Some(op.sources[i]))
        /\ \A path \in DOMAIN fs.files \ DOMAIN op.fs_before.files :
              \E i \in 1..Len(op.sources) : path = GetPath(i)
        /\ \A path \in DOMAIN op.fs_before.files :
              (\A i \in 1..Len(op.sources) : path # GetPath(i))
                  => (path \in DOMAIN fs.files /\ fs.files[path] = op.fs_before.files[path])

\* two resources of two hosts arrive in a directory that held neither
C19_Witness ==
    /\ GetDone
    /\ op.target_dir = <<"dl">>
    /\ Len(op.sources) = 2
    /\ op.result[1].ok /\ op.result[2].ok
    /\ Last(op.sources[1].segs) = "Pres.key"
    /\ Last(op.sources[2].segs) = "Notes.txt"
    /\ <<"dl", "Pres.key">> \notin DOMAIN op.fs_before.files
    /\ fs.files[<<"dl", "Pres.key">>] = Content("body", Some(op.sources[1]))
    /\ fs.files[<<"dl", "Notes.txt">>] = Content("body", Some(op.sources[2]))

Resolutions == {k \in 1..Len(events) : events[k].ev = "resolve"}
ResolutionsOf(item) == {k \in Resolutions : events[k].item = item}

\* the credential pair InitNetrc holds for a URL's host
PairOfHost(url) ==
    IF url.host = ExampleCom THEN [login |-> "u", password |-> "p"]
    ELSE IF url.host = OtherOrg THEN [login |-> "v", password |-> "q"]
    ELSE Anonymous

\* C20: put resolves credentials exactly once, against targetBase, before any
\* file is processed and however many files there are, and every upload uses
\* that pair; get resolves once per source, against that source's URL, before
\* the source is processed, and fetches it with that pair
C20_CredentialResolution ==
    /\ PutDone =>
          /\ Cardinality(Resolutions) = 1
          /\ events[1].ev = "resolve"
          /\ events[1].url = op.target_base
          /\ events[1].client = PairOfHost(op.target_base)
          /\ \A k \in TransportCalls : events[k].client = events[1].client
    /\ GetDone =>
          /\ Cardinality(Resolutions) = Len(op.sources)
          /\ \A i \in 1..Len(op.sources) :
                /\ Cardinality(ResolutionsOf(i)) = 1
                /\ \A r \in ResolutionsOf(i) :
                      /\ events[r].url = op.sources[i]
                      /\ events[r].client = PairOfHost(op.sources[i])
                      /\ \A k \in TransportCallsOf(i) \cup CreationsOf(i) : r < k
                      /\ \A k \in TransportCallsOf(i) : events[k].client = events[r].client

\* two sources on two hosts are fetched with two credential pairs
C20_Witness ==
    /\ GetDone
    /\ Len(op.sources) = 2
    /\ op.sources[1].host = ExampleCom /\ op.sources[2].host = OtherOrg
    /\ \E k \in TransportCallsOf(1) : events[k].client = [login |-> "u", password |-> "p"]
    /\ \E k \in TransportCallsOf(2) : events[k].client = [login |-> "v", password |-> "q"]

(***************************************************************************)
(* Further claims about FilterCriteria::matches (checked under SpecFilter). *)
(***************************************************************************)
\* C15: whenever typeConstraint is set, an entry without contentType is
\* rejected, whatever its size and time and the filter's size and time bounds
C15_UntypedEntryRejected ==
    (MatchesDone /\ IsSome(op.self.file_type) /\ IsNone(op.attrs.file_type))
        => op.result = FALSE

\* an entry that passes the size and time tests is rejected for lack of a type
C15_Witness ==
    /\ MatchesDone
    /\ IsSome(op.self.file_type) /\ IsNone(op.attrs.file_type)
    /\ IsSome(op.attrs.size) /\ IsSome(op.attrs.date)
    /\ ~size_rejects(op.self, op.attrs)
    /\ ~date_rejects(op.self, op.attrs)
    /\ IsSome(op.self.min_size) /\ IsSome(op.self.latest_modification)
    /\ op.result = FALSE

\* C17: with type and size unconstrained, an entry of modification time t
\* matches iff earliest <= t <= latest (an unset bound imposes no limit); for
\* an entry without modification time the verdict is the same under every
\* choice of time bounds
C17_TimeBounds ==
    MatchesDone =>
       /\ (/\ IsSome(op.attrs.date)
           /\ IsNone(op.self.file_type) /\ SizeUnconstrained(op.self))
          => (op.result =
                (/\ IsSome(op.self.earliest_modification)
                      => Unwrap(op.self.earliest_modification) <= Unwrap(op.attrs.date)
                 /\ IsSome(op.self.latest_modification)
                      => Unwrap(op.attrs.date) <= Unwrap(op.self.latest_modification)))
       /\ IsNone(op.attrs.date)
          => \A earliest \in Option(Times), latest \in Option(Times) :
                matches([op.self EXCEPT !.earliest_modification = earliest,
                                        !.latest_modification = latest], op.attrs)
                    = op.result

\* an entry modified exactly at the latest bound is accepted, with an
\* earlier lower bound set as well
C17_Witness ==
    /\ MatchesDone
    /\ IsNone(op.self.file_type) /\ SizeUnconstrained(op.self)
    /\ IsSome(op.attrs.date)
    /\ IsSome(op.self.earliest_modification) /\ IsSome(op.self.latest_modification)
    /\ Unwrap(op.self.earliest_modification) < Unwrap(op.self.latest_modification)
    /\ Unwrap(op.attrs.date) = Unwrap(op.self.latest_modification)
    /\ op.result = TRUE

(***************************************************************************)
(* Claims about the file lifecycle (checked under SpecLife).               *)
(***************************************************************************)
\* put, the listing after it, delete and the listing after that all succeeded
LifePassed == op.name = "test_file_lifecycle" /\ op.pc = "passed"

Includes(listing, url) == \E k \in 1..Len(listing) : listing[k].url = url

LifeCounts ==
    /\ Len(op.after_put) = Len(op.before) + 1
    /\ Includes(op.after_put, op.hello_url)
    /\ ~Includes(op.after_delete, op.hello_url)
    /\ Len(op.after_delete) = Len(op.before)

\* C16 as stated: after a successful put to u the listing under a filter the
\* upload satisfies has one more entry than before the put, and after a
\* successful delete(u) the listing no longer includes u and has the pre-put
\* count
C16_Lifecycle == LifePassed => LifeCounts

\* C16 amended: the same, provided the listing before the put did not
\* already include an entry for u
C16_LifecycleOfNewResource ==
    (LifePassed /\ ~Includes(op.before, op.hello_url)) => LifeCounts

\* hello.txt joins a listed resource and leaves again
C16_Witness ==
    /\ LifePassed
    /\ Last(op.hello_url.segs) = "hello.txt"
    /\ Len(op.before) = 1
    /\ Len(op.after_put) = 2
    /\ op.after_put[2].url = op.hello_url
    /\ Len(op.after_delete) = 1
    /\ op.after_delete = op.before

(***************************************************************************)
(* Claims about the single-target operations (checked under SpecSingle).   *)
(***************************************************************************)
DeleteDone == op.name = "delete"

\* the status of the answer to the last ls or delete
AnswerStatus == IF LsDone THEN Unwrap(op.answer).status ELSE Unwrap(op.answer)

\* the transport call failed or was answered with a status that is not 2xx
TransportFailed == IsNone(op.answer) \/ AnswerStatus \notin 200..299

\* the errors raised for a failed call or a non-success status: the
\* transport's own, or the generic one for a status without detail
IsTransportError(result) ==
    /\ ~result.ok
    /\ \/ result.err = "Dav"
       \/ /\ result.err = "Local"
          /\ result.detail = "Error status returned without information"

\* C18: ls and delete fail as a unit: when the transport call fails or the
\* status is not 2xx the result is one TransportError and nothing else (no
\* entry is returned), and a 2xx answer never yields a TransportError
C18_FailAsAUnit ==
    (LsDone \/ DeleteDone) =>
        /\ Cardinality(TransportCalls) = 1
        /\ TransportFailed =>
              /\ IsTransportError(op.result)
              /\ DOMAIN op.result = {"ok", "err", "detail"}
        /\ ~TransportFailed => ~IsTransportError(op.result)
        /\ DeleteDone /\ ~TransportFailed => op.result.ok

\* a 404 whose body is a well-formed listing yields the error and no entry
C18_Witness ==
    /\ LsDone
    /\ op.answer = Some([status |-> 404, body |-> ListingShapedBody])
    /\ op.filter = match_all
    /\ ~op.result.ok
    /\ op.result.err = "Dav"

(***************************************************************************)
(* Claims about the interactive commands (checked under SpecCmd).          *)
(***************************************************************************)
CmdDeleteDone == op.name = "cmd_delete_by_criteria"

\* the positions in events of the listing request and of the deletions
ListingCalls == {k \in TransportCalls : events[k].method = "PROPFIND"}
DeleteCalls == {k \in TransportCalls : events[k].method = "DELETE"}
DeleteCallOf(i) == {k \in DeleteCalls : events[k].item = i}

\* the command line is complete, its filter can be built and its path names
\* a URL under the connected base
CmdWellFormed ==
    /\ Len(op.args) = 6
    /\ \A n \in 3..6 : op.args[n] = Wildcard \/ parse_as(FieldType(ParsedFields[n - 2]), op.args[n]).ok
    /\ IsSome(base_url)
    /\ ~Unwrap(base_url).cannot_be_a_base
    /\ op.args[1] \notin InvalidRefs

\* the URL and the filter a well-formed command line names
CmdTarget == join(Unwrap(base_url), op.args[1]).val
CmdFilter == FilterCriteria_new(op.args[2], op.args[3], op.args[4], op.args[5], op.args[6]).val

\* the listing the command obtains
CmdListing == ls_parse(CmdTarget, CmdFilter, op.ls_answer)

\* whether the answer to a deletion is a success, and the command's error for
\* one that is not
DeleteSucceeded(answer) == IsSome(answer) /\ Unwrap(answer) \in 200..299
DeleteFailure(answer) ==
    IF IsNone(answer) THEN Err("DavError", "request")
    ELSE IF Unwrap(answer) \in 400..599 THEN Err("DavError", "status")
    ELSE Err("IoError", "Error status returned without information")

\* C21: delete-by-criteria first lists the collection with the given filter,
\* then issues one delete per listed entry's url in listing order, continuing
\* after a failed delete; it succeeds iff every delete succeeded and otherwise
\* fails with the error of the last failed delete; when the filter cannot be
\* built or the listing fails no delete is issued
C21_DeleteByCriteria ==
    CmdDeleteDone =>
        /\ ~CmdWellFormed =>
              (TransportCalls = {} /\ ~op.result.ok /\ op.result.err = "IllegalUse")
        /\ CmdWellFormed =>
              /\ Cardinality(ListingCalls) = 1
              /\ \A k \in ListingCalls :
                    /\ events[k].url = CmdTarget
                    /\ \A d \in DeleteCalls : k < d
              /\ ~CmdListing.ok => (DeleteCalls = {} /\ ~op.result.ok)
              /\ CmdListing.ok =>
                    LET n      == Len(CmdListing.val)
                        failed == {i \in 1..n : ~DeleteSucceeded(op.delete_answers[i])}
                    IN  /\ Cardinality(DeleteCalls) = n
                        /\ \A i \in 1..n :
                              /\ Cardinality(DeleteCallOf(i)) = 1
                              /\ \A k \in DeleteCallOf(i) :
                                    /\ events[k].url = CmdListing.val[i].url
                                    /\ \A j \in 1..(i - 1) : \A m \in DeleteCallOf(j) : m < k
                        /\ op.result.ok <=> failed = {}
                        /\ failed # {} =>
                              op.result =
                                 DeleteFailure(op.delete_answers[
                                    CHOOSE i \in failed : \A j \in failed : j <= i])

\* the first of two listed entries cannot be deleted, the second still is,
\* and the command fails with the first one's error
C21_Witness ==
    /\ CmdDeleteDone
    /\ CmdWellFormed
    /\ CmdListing.ok
    /\ Len(CmdListing.val) = 2
    /\ CmdListing.val[1].url # CmdListing.val[2].url
    /\ op.delete_answers[1] = Some(404)
    /\ op.delete_answers[2] = Some(204)
    /\ Cardinality(DeleteCalls) = 2
    /\ op.result = Err("DavError", "status")

====
